---- MODULE Spec2Model ----
(***************************************************************************)
(* Model of the marathon-plan activity pipeline:                           *)
(*   backend/app/parse_strava_gpx.py   parse_gpx                           *)
(*   backend/app/parse_strava_fit.py   parse_fit, _extract_sport           *)
(*   backend/app/processing.py         process_zip, parse_time_df,         *)
(*                                     analyze_runs                        *)
(* Floating-point values are exact rationals; a float column value is one  *)
(* of a number, NaN or None.                                               *)
(***************************************************************************)
EXTENDS Integers, Sequences, FiniteSets, TLC

VARIABLES
    df,          \* analyze_runs: the unified record set handed to it
    analysis,    \* analyze_runs: what the call produced
    gpx_doc,     \* parse_gpx: the document at `path`
    gpx_out,     \* parse_gpx: what the call produced
    fit_file,    \* parse_fit: the file at `path`
    fit_out,     \* parse_fit: what the call produced
    archive,     \* process_zip: the entries of the uploaded zip, in namelist order
    zip_out,     \* process_zip: what the call produced
    cache,       \* lru_cache on process_zip: cached keys, most recent first
    calls,       \* lru_cache: per caller, the position inside the wrapper
    executions,  \* lru_cache: per input, how often the body of process_zip ran
    sessions,    \* main.py: the rows of the sessions table, in insertion order
    response,    \* main.py: the last request and what the handler answered
    returned     \* main.py: what the successful uploads returned, in order

vars == <<df, analysis, gpx_doc, gpx_out, fit_file, fit_out, archive, zip_out,
          cache, calls, executions, sessions, response, returned>>

\* the state of the web service
service == <<sessions, response, returned>>

-----------------------------------------------------------------------------
(* Bounds of the model *)

\* longest record set given to analyze_runs
MaxRecords == 2
\* most <trkpt> elements of a GPX document
MaxTrkpts == 2
\* most record messages of a FIT file
MaxFitRecords == 2
\* most entries of an uploaded archive
MaxEntries == 2
\* most times the body of process_zip is counted per input
MaxExecutions == 3
\* concurrent callers of process_zip
MaxCallers == 2
\* most rows of a record set whose metrics are examined
MaxMetricRecords == 3

-----------------------------------------------------------------------------
(* Numbers: exact rationals n/d in lowest terms, d > 0; NaN; None *)

Abs(x) == IF x < 0 THEN -x ELSE x

RECURSIVE GCD(_, _)
GCD(a, b) == IF b = 0 THEN Abs(a) ELSE GCD(b, a % b)

Num(n, d) ==
    LET s == IF d < 0 THEN -1 ELSE 1
        g == GCD(Abs(n), Abs(d))
    IN  [k |-> "num", n |-> (s * n) \div g, d |-> (s * d) \div g]

Int2Num(i) == [k |-> "num", n |-> i, d |-> 1]

NaN == [k |-> "nan", n |-> 0, d |-> 1]

None == [k |-> "none", n |-> 0, d |-> 1]

IsNum(v) == v.k = "num"

\* pd.isna / np.isnan: true of NaN and of None
IsNA(v) == v.k # "num"

Add(a, b) ==
    LET g == GCD(a.d, b.d)
    IN  Num(a.n * (b.d \div g) + b.n * (a.d \div g), (a.d \div g) * b.d)

Sub(a, b) == Add(a, [b EXCEPT !.n = -b.n])

Mul(a, b) ==
    LET g1 == GCD(Abs(a.n), b.d)
        g2 == GCD(Abs(b.n), a.d)
    IN  Num((a.n \div g1) * (b.n \div g2), (a.d \div g2) * (b.d \div g1))

\* b # 0
Div(a, b) == Mul(a, Num(b.d, b.n))

Less(a, b) == a.n * b.d < b.n * a.d

LessEq(a, b) == a.n * b.d <= b.n * a.d

\* float arithmetic: NaN or None operands give NaN (None only arises in object
\* columns, where pandas masks it to NaN)
FDiv(a, b) == IF IsNum(a) /\ IsNum(b) THEN Div(a, b) ELSE NaN

\* int(x) for x >= 0: truncation
Trunc(a) == a.n \div a.d

\* round(x, 0) of n/d >= 0, ties to even (Python round)
RoundHalfEven(n, d) ==
    LET q == n \div d
        r == n % d
    IN  IF 2 * r < d THEN q
        ELSE IF 2 * r > d THEN q + 1
        ELSE IF q % 2 = 0 THEN q ELSE q + 1

RECURSIVE SumSeq(_)
SumSeq(s) == IF s = <<>> THEN Int2Num(0) ELSE Add(Head(s), SumSeq(Tail(s)))

-----------------------------------------------------------------------------
(* processing.py: the record set (one row per TrackPoint) *)

\* A timestamp as df["time"].astype(str) renders it: "naive" is
\* "Y-m-d H:M:S", "plus" is "Y-m-d H:M:S+hh:mm", "minus" is "...-hh:mm",
\* "NaT" is a missing value. wall is the wall-clock reading in seconds, off the
\* UTC offset in seconds.
Time(tz, wall, off) == [tz |-> tz, wall |-> wall, off |-> off]

NaT == Time("NaT", 0, 0)

\* The run key: Path.stem of the entry, as the leading activity number and the
\* dot-separated components left after it ("123.fit" is base 123, rest <<"fit">>)
RunKey(base, rest) == [base |-> base, rest |-> rest]

\* str ordering of run keys, as groupby and sort_values order them
RunLess(a, b) ==
    \/ a.base < b.base
    \/ a.base = b.base /\ Len(a.rest) < Len(b.rest)

Row(run, activity_type, time, lat, lon, hr, distance) ==
    [run |-> run, activity_type |-> activity_type, time |-> time,
     lat |-> lat, lon |-> lon, hr |-> hr, distance |-> distance]

\* great-circle kilometres per degree of latitude, R * pi / 180 with R = 6371,
\* to the kilometre
KmPerDegree == 111

\* haversine() in km. For two points of one meridian (dlon = 0) it is
\* 2 R atan2(sqrt a, sqrt(1 - a)) = R |dlat|, and for two points of the equator
\* R |dlon|; the model's points never differ in both coordinates
haversine(lat1, lon1, lat2, lon2) ==
    LET dlat == Sub(lat2, lat1)
        dlon == Sub(lon2, lon1)
        absn(v) == [v EXCEPT !.n = Abs(v.n)]
    IN  Mul(Int2Num(KmPerDegree), Add(absn(dlat), absn(dlon)))

\* parse_time_df: the rows whose time string matches naive_re or tz_re, in
\* index order, each with time_parsed (seconds on the UTC timeline)
TimeMatches(time) == time.tz \in {"naive", "plus"}

\* the wall-clock reading, whatever the offset
wall_clock(time) == time.wall

time_parsed(time) == IF time.tz = "naive" THEN time.wall ELSE time.wall - time.off

parse_time_df(rows) ==
    LET kept == SelectSeq(rows, LAMBDA r : TimeMatches(r.time))
    IN  [i \in 1..Len(kept) |-> [kept[i] EXCEPT !.time = time_parsed(kept[i].time)]]

\* DataFrame.sort_values("time"): stable for the short frames of the model
RECURSIVE InsertByTime(_, _)
InsertByTime(r, sorted) ==
    IF sorted = <<>> THEN <<r>>
    ELSE IF r.time < Head(sorted).time THEN <<r>> \o sorted
    ELSE <<Head(sorted)>> \o InsertByTime(r, Tail(sorted))

RECURSIVE SortByTime(_)
SortByTime(rows) ==
    IF rows = <<>> THEN <<>>
    ELSE InsertByTime(rows[Len(rows)], SortByTime(SubSeq(rows, 1, Len(rows) - 1)))

\* DataFrame.sort_values(by=["run", "time"])
RECURSIVE InsertByRunTime(_, _)
InsertByRunTime(r, sorted) ==
    IF sorted = <<>> THEN <<r>>
    ELSE IF \/ RunLess(r.run, Head(sorted).run)
            \/ r.run = Head(sorted).run /\ r.time < Head(sorted).time
         THEN <<r>> \o sorted
    ELSE <<Head(sorted)>> \o InsertByRunTime(r, Tail(sorted))

RECURSIVE SortByRunTime(_)
SortByRunTime(rows) ==
    IF rows = <<>> THEN <<>>
    ELSE InsertByRunTime(rows[Len(rows)], SortByRunTime(SubSeq(rows, 1, Len(rows) - 1)))

\* the group keys of groupby("run"), in key order
RECURSIVE RunKeys(_)
RunKeys(sorted) ==
    IF sorted = <<>> THEN <<>>
    ELSE LET rest == RunKeys(Tail(sorted))
         IN  IF rest # <<>> /\ Head(rest) = Head(sorted).run THEN rest
             ELSE <<Head(sorted).run>> \o rest

\* Series.max / min / mean / count skip missing values
Present(vals) == SelectSeq(vals, IsNum)

RECURSIVE MaxOf(_)
MaxOf(vals) ==
    IF Len(vals) = 1 THEN vals[1]
    ELSE LET m == MaxOf(Tail(vals))
         IN  IF Less(Head(vals), m) THEN m ELSE Head(vals)

SeriesMax(vals) == IF Present(vals) = <<>> THEN NaN ELSE MaxOf(Present(vals))

SeriesMean(vals) ==
    IF Present(vals) = <<>> THEN NaN
    ELSE Div(SumSeq(Present(vals)), Int2Num(Len(Present(vals))))

SeriesCount(vals) == Len(Present(vals))

\* Python max(a, b): b only when b > a, and no comparison with NaN is true
PyMax(a, b) == IF IsNum(a) /\ IsNum(b) /\ Less(a, b) THEN b ELSE a

\* truth value of a float: NaN is true, 0.0 is false
Truthy(v) == IsNA(v) \/ v.n # 0

Column(rows, f(_)) == [i \in 1..Len(rows) |-> f(rows[i])]


-----------------------------------------------------------------------------
(* processing.py: analyze_runs *)

\* lines 202-209: the haversine walk over the rows with valid coordinates, in m
RECURSIVE Walk(_)
Walk(pts) ==
    IF Len(pts) < 2 THEN Int2Num(0)
    ELSE Add(Mul(haversine(pts[1].lat, pts[1].lon, pts[2].lat, pts[2].lon),
                 Int2Num(1000)),
             Walk(Tail(pts)))

dist_m(g) == Walk(SelectSeq(g, LAMBDA r : ~(IsNA(r.lat) \/ IsNA(r.lon))))

\* line 210
distance(g) == PyMax(SeriesMax(Column(g, LAMBDA r : r.distance)), dist_m(g))

\* line 212: g is sorted by time and every row has a parsed time
duration_sec(g) == Int2Num(g[Len(g)].time - g[1].time)

\* the hr < 150 rule taken with hr <= 150
aerobic_pct_inclusive(g) ==
    LET hr == Column(g, LAMBDA r : r.hr)
        below == SelectSeq(Present(hr), LAMBDA v : LessEq(v, Int2Num(150)))
    IN  IF SeriesCount(hr) > 0
        THEN Mul(Div(Int2Num(Len(below)), Int2Num(SeriesCount(hr))), Int2Num(100))
        ELSE None

\* lines 216-219
aerobic_pct(g) ==
    LET hr == Column(g, LAMBDA r : r.hr)
        below == SelectSeq(Present(hr), LAMBDA v : Less(v, Int2Num(150)))
    IN  IF SeriesCount(hr) > 0
        THEN Mul(Div(Int2Num(Len(below)), Int2Num(SeriesCount(hr))), Int2Num(100))
        ELSE None

\* the pace guarded by the haversine distance alone, not by the larger of the
\* device distance and the haversine distance
pace_sec_per_km_haversine(g) ==
    IF Truthy(dist_m(g))
    THEN FDiv(FDiv(duration_sec(g), distance(g)), Int2Num(1000))
    ELSE None

\* line 226: duration_sec / distance / 1000 if distance else None
pace_sec_per_km(g) ==
    IF Truthy(distance(g))
    THEN FDiv(FDiv(duration_sec(g), distance(g)), Int2Num(1000))
    ELSE None

\* lines 220-230: the dict appended for one group
run_summary(run_id, g) ==
    [run_id          |-> run_id,
     date            |-> g[Len(g)].time,
     distance_km     |-> FDiv(distance(g), Int2Num(1000)),
     duration_sec    |-> duration_sec(g),
     pace_sec_per_km |-> pace_sec_per_km(g),
     avg_hr          |-> SeriesMean(Column(g, LAMBDA r : r.hr)),
     aerobic_pct     |-> aerobic_pct(g)]

\* line 232, pd.DataFrame(runs_summary): a column holding None and floats is a
\* float column with NaN for None; a column of None alone keeps None
FloatColumn(col) ==
    IF \A i \in 1..Len(col) : col[i].k = "none" THEN col
    ELSE [i \in 1..Len(col) |-> IF col[i].k = "none" THEN NaN ELSE col[i]]

\* lines 232-233 and 288: the rows of the runs frame, validated as RunSummary.
\* pydantic takes the same-named properties of the class as field defaults, so
\* no setter runs and every value is kept as it is
runs_frame(summaries) ==
    LET pace == FloatColumn(Column(summaries, LAMBDA r : r.pace_sec_per_km))
        aer  == FloatColumn(Column(summaries, LAMBDA r : r.aerobic_pct))
    IN  [i \in 1..Len(summaries) |->
            [run_id          |-> summaries[i].run_id,
             date            |-> summaries[i].date,
             distance_km     |-> summaries[i].distance_km,
             duration_sec    |-> summaries[i].duration_sec,
             pace_sec_per_km |-> pace[i],
             avg_hr          |-> summaries[i].avg_hr,
             aerobic_pct     |-> aer[i],
             pace_min_km     |-> FDiv(pace[i], Int2Num(60))]]

\* line 17, in tenths
HR_ZONES == <<<<0, 6>>, <<6, 7>>, <<7, 8>>, <<8, 9>>, <<9, 10>>>>

\* line 250: seconds since the previous row of the time-sorted frame, 0 first
delta_time(sorted, i) == IF i = 1 THEN 0 ELSE sorted[i].time - sorted[i - 1].time

\* line 252: low <= hr / max_hr < high
InZone(hr, max_hr, z) ==
    /\ IsNum(hr)
    /\ max_hr.n # 0
    /\ LessEq(Num(HR_ZONES[z][1], 10), Div(hr, max_hr))
    /\ Less(Div(hr, max_hr), Num(HR_ZONES[z][2], 10))

\* line 253: round(zone_df["delta_time"].sum() / 60, 1), in minutes
zone_minutes(sorted, max_hr, z) ==
    LET idx  == SelectSeq([i \in 1..Len(sorted) |-> i],
                          LAMBDA i : InZone(sorted[i].hr, max_hr, z))
        secs == SumSeq([j \in 1..Len(idx) |-> Int2Num(delta_time(sorted, idx[j]))])
    IN  Num(RoundHalfEven(secs.n * 10, 60), 10)

\* lines 245-260
zone_pct(running) ==
    LET hr     == Column(running, LAMBDA r : r.hr)
        sorted == SortByTime(running)
        zones  == [z \in 1..Len(HR_ZONES) |-> zone_minutes(sorted, SeriesMax(hr), z)]
        total  == SumSeq(zones)
    IN  IF SeriesCount(hr) > 0
        THEN IF total.n > 0
             THEN [z \in 1..Len(HR_ZONES) |-> Mul(Div(zones[z], total), Int2Num(100))]
             ELSE [z \in 1..Len(HR_ZONES) |-> Int2Num(0)]
        ELSE [z \in 1..Len(HR_ZONES) |-> Int2Num(0)]

\* line 236: Series.sum skips missing values
total_distance(runs) ==
    SumSeq(Present([i \in 1..Len(runs) |-> runs[i].distance_km]))

\* lines 237-238: runs["duration_sec"].sum()
total_duration(runs) == SumSeq([i \in 1..Len(runs) |-> runs[i].duration_sec])

\* line 237
total_duration_h(runs) == Div(total_duration(runs), Int2Num(3600))

\* line 238
overall_pace_sec(runs) ==
    IF Truthy(total_distance(runs))
    THEN Div(total_duration(runs), total_distance(runs))
    ELSE NaN

\* line 239: the frame is not empty when this line is reached
avg_pace_per_run_sec(runs) ==
    SeriesMean([i \in 1..Len(runs) |-> runs[i].pace_sec_per_km])

\* the marathon distance of line 241, in km
MarathonKm == Num(42195, 1000)

\* the runs longer than the marathon distance
marathons_beyond(runs) ==
    SelectSeq(runs, LAMBDA r : IsNum(r.distance_km) /\ Less(MarathonKm, r.distance_km))

\* line 241: no comparison with NaN is true
marathons(runs) ==
    SelectSeq(runs, LAMBDA r : IsNum(r.distance_km) /\ LessEq(MarathonKm, r.distance_km))

\* line 242
avg_marathon_pace_sec(runs) ==
    IF marathons(runs) = <<>> THEN NaN
    ELSE SeriesMean([i \in 1..Len(marathons(runs)) |->
                        marathons(runs)[i].pace_sec_per_km])

\* round(x, ndigits) for x >= 0, scale = 10^ndigits
Round(x, scale) == Num(RoundHalfEven(x.n * scale, x.d), scale)

\* the marker of a pace that is not available
Dash == [k |-> "dash", n |-> 0, d |-> 1]

\* lines 277-280: round(sec / 60, 2) if not np.isnan(sec) else the dash
pace_value(sec) == IF IsNum(sec) THEN Round(Div(sec, Int2Num(60)), 100) ELSE Dash

\* lines 264-272
MetricNames ==
    <<"Total runs", "Total distance (km)", "Total duration (h)",
      "Overall average pace (min/km)", "Avg. pace per run (min/km)",
      "Marathons completed", "Avg. marathon pace (min/km)">>

\* lines 273-281: the Value column, in the order of MetricNames
metrics(runs) ==
    <<Int2Num(Len(runs)),
      Round(total_distance(runs), 10),
      Round(total_duration_h(runs), 100),
      pace_value(overall_pace_sec(runs)),
      pace_value(avg_pace_per_run_sec(runs)),
      Int2Num(Len(marathons(runs))),
      pace_value(avg_marathon_pace_sec(runs))>>

\* lines 236-242: the aggregates before they are rounded into the metrics
aggregates(runs) ==
    [total_distance        |-> total_distance(runs),
     total_duration_h      |-> total_duration_h(runs),
     overall_pace_sec      |-> overall_pace_sec(runs),
     avg_pace_per_run_sec  |-> avg_pace_per_run_sec(runs),
     avg_marathon_pace_sec |-> avg_marathon_pace_sec(runs)]

Raise(exc) ==
    [kind |-> "raise", exc |-> exc, runs |-> <<>>, zone_pct |-> <<>>,
     metrics |-> <<>>, aggregates |-> <<>>]

NoCall ==
    [kind |-> "none", exc |-> "", runs |-> <<>>, zone_pct |-> <<>>,
     metrics |-> <<>>, aggregates |-> <<>>]

\* every record, whatever its activity type
all_records(rows) == rows

\* line 193: df[df["activity_type"] == "running"]
running_df(rows) == SelectSeq(rows, LAMBDA r : r.activity_type = "running")

\* lines 192-199, 232-233: with no group the runs frame has no columns and
\* runs["pace_sec_per_km"] raises KeyError
analyze_runs(rows) ==
    LET running == SortByRunTime(parse_time_df(running_df(rows)))
        keys    == RunKeys(running)
        group(key) == SortByTime(SelectSeq(running, LAMBDA r : r.run = key))
        summaries == [i \in 1..Len(keys) |-> run_summary(keys[i], group(keys[i]))]
    IN  IF summaries = <<>> THEN Raise("KeyError")
        ELSE [kind |-> "ok", exc |-> "", runs |-> runs_frame(summaries),
              zone_pct |-> zone_pct(running),
              metrics |-> metrics(runs_frame(summaries)),
              aggregates |-> aggregates(runs_frame(summaries))]

-----------------------------------------------------------------------------
(* Files and decoded points *)

\* A path inside the archive or the temporary directory: the directory part,
\* the leading activity number of the file name and its dot-separated suffixes
\* ("activities/123.fit.gz" is dir "activities/", base 123, suffixes <<"fit", "gz">>)
Path(dir, base, suffixes) == [dir |-> dir, base |-> base, suffixes |-> suffixes]

\* pathlib.Path(path).stem: the file name without its last suffix
stem(path) ==
    RunKey(path.base,
           IF path.suffixes = <<>> THEN <<>>
           ELSE SubSeq(path.suffixes, 1, Len(path.suffixes) - 1))

\* str.endswith(".a.b") on the file name
EndsWith(path, tail) ==
    /\ Len(path.suffixes) >= Len(tail)
    /\ SubSeq(path.suffixes, Len(path.suffixes) - Len(tail) + 1, Len(path.suffixes)) = tail

\* the value of an Optional[str] field that is None
NoType == "<None>"

\* time=None of a TrackPoint
NoTime == Time("None", 0, 0)

\* TrackPoint(...) as the decoders build it
TrackPoint(time, lat, lon, ele, hr, activity_type, run) ==
    [time |-> time, lat |-> lat, lon |-> lon, ele |-> ele, hr |-> hr,
     activity_type |-> activity_type, run |-> run]

Decoded(points) == [kind |-> "ok", exc |-> "", points |-> points]

DecodeError(exc) == [kind |-> "raise", exc |-> exc, points |-> <<>>]

NotDecoded == [kind |-> "none", exc |-> "", points |-> <<>>]

-----------------------------------------------------------------------------
(* parse_strava_gpx.py: parse_gpx *)

\* The text of an attribute or element: a number, text that is no number, or
\* no attribute / element at all
Absent == [k |-> "absent", n |-> 0, d |-> 1]

Garbage == [k |-> "garbage", n |-> 0, d |-> 1]

\* The text of a <time> element: ISO-8601 with zone "Z", "+" (+hh:mm),
\* "-" (-hh:mm) or "" (no zone); or text that is no timestamp; or no element
IsoText(zone, wall, off) == [k |-> "iso", zone |-> zone, wall |-> wall, off |-> off]

NoTimeText == [k |-> "absent", zone |-> "", wall |-> 0, off |-> 0]

BadTimeText == [k |-> "garbage", zone |-> "", wall |-> 0, off |-> 0]

Trkpt(lat, lon, ele, time, hr) ==
    [lat |-> lat, lon |-> lon, ele |-> ele, time |-> time, hr |-> hr]

GpxDoc(path, wellformed, type, trkpts) ==
    [path |-> path, wellformed |-> wellformed, type |-> type, trkpts |-> trkpts]

\* lines 62-68: datetime.fromisoformat(text.replace("Z", "+00:00")), None on
\* ValueError
gpx_time(text) ==
    IF text.k # "iso" THEN NoTime
    ELSE IF text.zone = "" THEN Time("naive", text.wall, 0)
    ELSE IF text.zone = "Z" THEN Time("plus", text.wall, 0)
    ELSE IF text.zone = "+" THEN Time("plus", text.wall, text.off)
    ELSE Time("minus", text.wall, text.off)

\* lines 54-60 and 70-76: float(text) / int(text), None when it fails
gpx_optional(text) == IF text.k = "num" THEN text ELSE None

\* lines 51-52: float(pt.attrib["lat"]), float(pt.attrib["lon"])
gpx_coordinate_error(pt) ==
    IF pt.lat.k = "absent" THEN "KeyError"
    ELSE IF pt.lat.k = "garbage" THEN "ValueError"
    ELSE IF pt.lon.k = "absent" THEN "KeyError"
    ELSE IF pt.lon.k = "garbage" THEN "ValueError"
    ELSE ""

\* lines 50-89: the loop over trkpts, which no try guards
RECURSIVE gpx_points(_, _, _)
gpx_points(trkpts, activity_type, name) ==
    IF trkpts = <<>> THEN Decoded(<<>>)
    ELSE LET pt == Head(trkpts)
             rest == gpx_points(Tail(trkpts), activity_type, name)
         IN  IF gpx_coordinate_error(pt) # "" THEN DecodeError(gpx_coordinate_error(pt))
             ELSE IF rest.kind = "raise" THEN rest
             ELSE Decoded(<<TrackPoint(gpx_time(pt.time), pt.lat, pt.lon,
                                       gpx_optional(pt.ele), gpx_optional(pt.hr),
                                       activity_type, name)>> \o rest.points)

\* lines 30-90
parse_gpx(doc) ==
    IF ~doc.wellformed THEN DecodeError("ParseError")
    ELSE gpx_points(doc.trkpts,
                    IF doc.type \in {NoType, ""} THEN NoType ELSE doc.type,
                    stem(doc.path))

-----------------------------------------------------------------------------
(* parse_strava_fit.py: _extract_sport, parse_fit *)

\* line 42: 180.0 / 2**31, in lowest terms
SEMICIRCLE_TO_DEG == Num(45, 536870912)

\* lines 45-46
semicircle_to_deg(value) ==
    IF value.k = "num" THEN Mul(value, SEMICIRCLE_TO_DEG) ELSE None

\* A field of a sport or session message: a string, "" or None (NoType), or
\* the integer 0
Zero == "<0>"

SportMsg(sport, sub_sport, sport_name, name) ==
    [sport |-> sport, sub_sport |-> sub_sport, sport_name |-> sport_name,
     name |-> name]

\* lines 55-58 and 62-65: the first value of one message that is not in
\* (None, "", 0), over the keys in order; NoType when there is none
RECURSIVE first_value(_)
first_value(vals) ==
    IF vals = <<>> THEN NoType
    ELSE IF Head(vals) \notin {NoType, "", Zero} THEN Head(vals)
    ELSE first_value(Tail(vals))

RECURSIVE scan_sport(_)
scan_sport(msgs) ==
    IF msgs = <<>> THEN NoType
    ELSE LET m == Head(msgs)
             v == first_value(<<m.sport, m.sub_sport, m.name>>)
         IN  IF v # NoType THEN v ELSE scan_sport(Tail(msgs))

RECURSIVE scan_session(_)
scan_session(msgs) ==
    IF msgs = <<>> THEN NoType
    ELSE LET m == Head(msgs)
             v == first_value(<<m.sport, m.sub_sport, m.sport_name, m.name>>)
         IN  IF v # NoType THEN v ELSE scan_session(Tail(msgs))

\* the two scans in the other order: session messages first
extract_sport_sessions_first(fit) ==
    IF scan_session(fit.session) # NoType THEN scan_session(fit.session)
    ELSE IF scan_sport(fit.sport) # NoType THEN scan_sport(fit.sport)
    ELSE "unknown"

\* lines 52-67
extract_sport(fit) ==
    IF scan_sport(fit.sport) # NoType THEN scan_sport(fit.sport)
    ELSE IF scan_session(fit.session) # NoType THEN scan_session(fit.session)
    ELSE "unknown"

\* The timestamp field of a record: a datetime (naive, UTC), a raw integer
\* the library left unconverted, or no field
Stamp(wall) == [k |-> "datetime", wall |-> wall]

RawStamp(raw) == [k |-> "int", wall |-> raw]

NoStamp == [k |-> "absent", wall |-> 0]

FitRecord(position_lat, position_long, timestamp, heart_rate, altitude) ==
    [position_lat |-> position_lat, position_long |-> position_long,
     timestamp |-> timestamp, heart_rate |-> heart_rate, altitude |-> altitude]

\* damage is "" for a readable file; otherwise the stream or the FIT structure
\* is corrupt
FitFile(path, damaged, sport, session, records) ==
    [path |-> path, damaged |-> damaged, sport |-> sport, session |-> session,
     records |-> records]

\* a record skipped only when both coordinates are missing
fit_skips_both(record) ==
    /\ semicircle_to_deg(record.position_lat) = None
    /\ semicircle_to_deg(record.position_long) = None

\* lines 88-94: continue when lat is None or lon is None
fit_skips(record) ==
    \/ semicircle_to_deg(record.position_lat) = None
    \/ semicircle_to_deg(record.position_long) = None

\* lines 97-100
fit_time(timestamp) ==
    IF timestamp.k = "datetime" THEN Time("naive", timestamp.wall, 0) ELSE NoTime

\* lines 103-106
fit_hr(hr_raw) == IF hr_raw.k = "num" THEN Int2Num(Trunc(hr_raw)) ELSE None

\* lines 84-118
fit_points(records, activity_type, name) ==
    LET kept == SelectSeq(records, LAMBDA r : ~fit_skips(r))
    IN  [i \in 1..Len(kept) |->
            TrackPoint(fit_time(kept[i].timestamp),
                       semicircle_to_deg(kept[i].position_lat),
                       semicircle_to_deg(kept[i].position_long),
                       kept[i].altitude,
                       fit_hr(kept[i].heart_rate),
                       activity_type, name)]

FitOut(kind, exc, points, fit_io) ==
    [kind |-> kind, exc |-> exc, points |-> points, fit_io |-> fit_io]

NoFitCall == FitOut("none", "", <<>>, "unopened")

\* lines 70-122: the stream is opened, read by FitFile and the message
\* iterators, and closed by the last statement alone. A damaged gzip stream
\* raises gzip.BadGzipFile at the first read, a damaged FIT structure
\* fitparse's FitParseError
parse_fit(fit) ==
    IF fit.damaged
    THEN FitOut("raise",
                IF EndsWith(fit.path, <<"gz">>) THEN "BadGzipFile" ELSE "FitParseError",
                <<>>, "open")
    ELSE FitOut("ok", "", fit_points(fit.records, extract_sport(fit), stem(fit.path)),
                "closed")

-----------------------------------------------------------------------------
(* processing.py: process_zip *)

\* The bytes of one archive member: a FIT payload, a GPX document or something
\* else ("text"). A member named *.fit.gz holds its payload gzipped.
Body(format, damaged, type, sport, session, records, trkpts) ==
    [format |-> format, damaged |-> damaged, type |-> type, sport |-> sport,
     session |-> session, records |-> records, trkpts |-> trkpts]

Entry(name, body) == [name |-> name, body |-> body]

\* line 101: "activities" in name, a substring test on the whole member name.
\* dir is "activities/" (a path segment), "old_activities/" (the word inside
\* another segment) or "media/" (no occurrence)
MentionsActivities(name) == name.dir \in {"activities/", "old_activities/"}

\* line 105: zf.extract(name) writes the member that getinfo(name) finds, the
\* last one of that name
extracted(entries, name) ==
    LET last == CHOOSE i \in 1..Len(entries) :
                    /\ entries[i].name = name
                    /\ \A j \in (i + 1)..Len(entries) : entries[j].name # name
    IN  entries[last].body

IsFitName(name) == EndsWith(name, <<"fit">>) \/ EndsWith(name, <<"fit", "gz">>)

IsGpxName(name) == EndsWith(name, <<"gpx">>)

\* lines 106-115: the decoder the name selects, run on the extracted bytes;
\* bytes of another format fail like damaged ones
decode(name, body) ==
    IF IsFitName(name)
    THEN LET out == parse_fit(FitFile(name, body.damaged \/ body.format # "fit",
                                      body.sport, body.session, body.records))
         IN  [kind |-> out.kind, exc |-> out.exc, points |-> out.points]
    ELSE IF IsGpxName(name)
    THEN parse_gpx(GpxDoc(name, ~body.damaged /\ body.format = "gpx", body.type,
                          body.trkpts))
    ELSE Decoded(<<>>)

\* TrackPoint.distance: the decoders never pass it
device_distance(pt) == NaN

\* lines 110, 115: pd.DataFrame([item.model_dump() ...]); None is a missing
\* value of the column
to_row(pt) ==
    Row(pt.run, pt.activity_type,
        IF pt.time = NoTime THEN NaT ELSE pt.time,
        pt.lat, pt.lon,
        IF pt.hr = None THEN NaN ELSE pt.hr,
        device_distance(pt))

\* lines 99-115: the loop over zf.namelist(). No try guards a decoder call, so
\* the first entry that fails to decode ends the loop with its exception
RECURSIVE collect(_, _)
collect(entries, i) ==
    IF i > Len(entries) THEN Decoded(<<>>)
    ELSE LET name == entries[i].name
             out == IF MentionsActivities(name)
                    THEN decode(name, extracted(entries, name))
                    ELSE Decoded(<<>>)
             rest == collect(entries, i + 1)
         IN  IF out.kind = "raise" THEN out
             ELSE IF rest.kind = "raise" THEN rest
             ELSE Decoded(out.points \o rest.points)

NoDataError == "ValueError: No FIT/GPX files found"

ZipOut(kind, exc, runs, zones) ==
    [kind |-> kind, exc |-> exc, runs |-> runs, metrics |-> <<>>,
     zone_pct |-> zones]

NoZipCall == ZipOut("none", "", <<>>, <<>>)

\* lines 116-118: the unified record set, empty when process_zip raised before
\* building it
unified(entries) ==
    LET got == collect(entries, 1)
    IN  IF got.kind = "raise" THEN <<>>
        ELSE [i \in 1..Len(got.points) |-> to_row(got.points[i])]

\* lines 92-123 (the body, without the cache); frame is the df of line 118,
\* unified(entries)
process_zip(entries, frame) ==
    LET got == collect(entries, 1)
        res == analyze_runs(frame)
    IN  IF got.kind = "raise" THEN ZipOut("raise", got.exc, <<>>, <<>>)
        ELSE IF got.points = <<>> THEN ZipOut("raise", NoDataError, <<>>, <<>>)
        ELSE [field \in DOMAIN NoZipCall |-> res[field]]

\* main.py lines 48-54: what upload_data answers when process_zip raised out (exc
\* names the exception and its message),
\* HTTPException(status_code=400, detail=str(e))
upload_error(out) == [status_code |-> 400, detail |-> out.exc]

-----------------------------------------------------------------------------
(* main.py: upload_data, get_results and the sessions table *)

\* HTTPException(status_code, detail) as the client receives it
HTTPException(status_code, detail) ==
    [status_code |-> status_code, body |-> [detail |-> detail]]

\* a handler's return value as the client receives it
Ok(body) == [status_code |-> 200, body |-> body]

\* line 45: (file.filename or "").endswith(".zip"). A file name is the sequence
\* of its dot-separated parts, <<>> for no name
IsZipName(filename) == Len(filename) >= 2 /\ filename[Len(filename)] = "zip"

\* line 56, summary_model.model_dump(): dicts and lists of Python values, the
\* date still a date object
model_dump(out) ==
    [runs     |-> out.runs,
     metrics  |-> [i \in 1..Len(out.metrics) |->
                      [Metric |-> MetricNames[i], Value |-> out.metrics[i]]],
     zone_pct |-> out.zone_pct]

\* the tokens of a JSON text
JsonNumber(v) == [token |-> "number", n |-> v.n, d |-> v.d]

JsonNaN == [token |-> "NaN"]

JsonNull == [token |-> "null"]

JsonString(text) == [token |-> "string", text |-> text]

\* str(date), what default=str makes of a datetime.date
str_date(date) == [isoformat |-> date]

\* line 58, json.dumps of a float, None or str: allow_nan is on, a NaN is
\* written as the token NaN
json_dumps_leaf(v) ==
    CASE v.k = "num"  -> JsonNumber(v)
      [] v.k = "nan"  -> JsonNaN
      [] v.k = "none" -> JsonNull
      [] v.k = "dash" -> JsonString(v)

\* line 58: json.dumps(summary, default=str)
json_dumps(summary) ==
    [runs     |-> [i \in 1..Len(summary.runs) |->
                      [f \in DOMAIN summary.runs[i] |->
                          IF f = "run_id" THEN JsonString(summary.runs[i][f])
                          ELSE IF f = "date"
                          THEN JsonString(str_date(summary.runs[i][f]))
                          ELSE json_dumps_leaf(summary.runs[i][f])]],
     metrics  |-> [i \in 1..Len(summary.metrics) |->
                      [Metric |-> JsonString(summary.metrics[i].Metric),
                       Value  |-> json_dumps_leaf(summary.metrics[i].Value)]],
     zone_pct |-> [z \in 1..Len(summary.zone_pct) |->
                      json_dumps_leaf(summary.zone_pct[z])]]

\* line 72, json.loads of one token: the token NaN is read as float('nan')
json_loads_leaf(tok) ==
    CASE tok.token = "number" -> Num(tok.n, tok.d)
      [] tok.token = "NaN"    -> NaN
      [] tok.token = "null"   -> None
      [] tok.token = "string" -> tok.text

\* line 72: json.loads(str(sess.summary_json))
json_loads(text) ==
    [runs     |-> [i \in 1..Len(text.runs) |->
                      [f \in DOMAIN text.runs[i] |-> json_loads_leaf(text.runs[i][f])]],
     metrics  |-> [i \in 1..Len(text.metrics) |->
                      [Metric |-> json_loads_leaf(text.metrics[i].Metric),
                       Value  |-> json_loads_leaf(text.metrics[i].Value)]],
     zone_pct |-> [z \in 1..Len(text.zone_pct) |-> json_loads_leaf(text.zone_pct[z])]]

\* lines 37-39: a float NaN becomes None, anything else is returned as it is
sanitize_leaf(obj) == IF obj = NaN THEN None ELSE obj

\* the summary returned with its NaN values in place
keep_nan(obj) == obj

\* lines 31-39, over the dicts and lists of a summary (the metric names are
\* str objects and returned as they are)
_sanitize_nan(obj) ==
    [runs     |-> [i \in 1..Len(obj.runs) |->
                      [f \in DOMAIN obj.runs[i] |-> sanitize_leaf(obj.runs[i][f])]],
     metrics  |-> [i \in 1..Len(obj.metrics) |->
                      [Metric |-> obj.metrics[i].Metric,
                       Value  |-> sanitize_leaf(obj.metrics[i].Value)]],
     zone_pct |-> [z \in 1..Len(obj.zone_pct) |-> sanitize_leaf(obj.zone_pct[z])]]

\* models.py lines 17-22: a row of the sessions table (user_id and created_at
\* are not read by the handlers)
SessionModel(id, summary_json) == [id |-> id, summary_json |-> summary_json]

\* models.py line 19: an integer primary key, given by the database at the
\* commit; no row is ever deleted
next_id(db) == Len(db) + 1

\* a session row written for every upload named *.zip, whatever process_zip
\* did
upload_data_stores_first(filename, out, db) ==
    IF ~IsZipName(filename)
    THEN [answer |-> HTTPException(400, "Upload a .zip archive"), db |-> db]
    ELSE IF out.kind = "raise"
    THEN [answer |-> HTTPException(upload_error(out).status_code,
                                   upload_error(out).detail),
          db |-> Append(db, SessionModel(next_id(db), json_dumps(model_dump(out))))]
    ELSE [answer |-> Ok([session_id |-> next_id(db), summary |-> model_dump(out)]),
          db |-> Append(db, SessionModel(next_id(db), json_dumps(model_dump(out))))]

\* lines 42-62; out is what process_zip(content) did (not called when the
\* name is refused), db the sessions table; the answer and the table after
upload_data(filename, out, db) ==
    IF ~IsZipName(filename)
    THEN [answer |-> HTTPException(400, "Upload a .zip archive"), db |-> db]
    ELSE IF out.kind = "raise"
    THEN [answer |-> HTTPException(upload_error(out).status_code,
                                   upload_error(out).detail),
          db |-> db]
    ELSE [answer |-> Ok([session_id |-> next_id(db), summary |-> model_dump(out)]),
          db |-> Append(db, SessionModel(next_id(db), json_dumps(model_dump(out))))]

\* lines 65-74
get_results(session_id, db) ==
    LET sess == SelectSeq(db, LAMBDA row : row.id = session_id)
    IN  IF sess = <<>> THEN HTTPException(404, "Not found")
        ELSE Ok(_sanitize_nan(json_loads(sess[1].summary_json)))

\* a request and its answer
Exchange(op, filename, session_id, answer) ==
    [op |-> op, filename |-> filename, session_id |-> session_id,
     answer |-> answer]

NoResponse == Exchange("none", <<>>, 0, [status_code |-> 0, body |-> <<>>])

\* the service before any request
NoService == sessions = <<>> /\ response = NoResponse /\ returned = <<>>

-----------------------------------------------------------------------------
(* Inputs of analyze_runs *)

RunIds == {RunKey(123, <<>>), RunKey(456, <<>>)}

\* 00:00:00 naive and 01:01:00+01:00, one minute apart on the UTC timeline
Times == {Time("naive", 0, 0), Time("plus", 3660, 3600)}

Lats == {NaN, Int2Num(0), Int2Num(1)}

HeartRates == {NaN, Int2Num(120), Int2Num(150)}

\* the device-reported distance column, in metres
Distances == {NaN, Int2Num(0), Int2Num(10000)}

\* Rows that vary the geometry (no heart rate), rows that vary the heart rate
\* (at one place, no device distance), a row without a usable timestamp, a row
\* without a longitude, a row of another activity type and a row whose
\* timestamp has a negative UTC offset
Rows ==
    {Row(run, "running", t, lat, Int2Num(0), NaN, dist) :
        run \in RunIds, t \in Times, lat \in Lats, dist \in Distances}
    \cup {Row(run, "running", t, Int2Num(0), Int2Num(0), hr, NaN) :
             run \in RunIds, t \in Times, hr \in HeartRates \ {NaN}}
    \cup {Row(RunKey(123, <<>>), "running", NaT, Int2Num(0), Int2Num(0),
              Int2Num(120), NaN),
          Row(RunKey(123, <<>>), "running", Time("naive", 0, 0), Int2Num(0), NaN,
              NaN, NaN),
          Row(RunKey(456, <<>>), "cycling", Time("naive", 0, 0), Int2Num(1),
              Int2Num(0), Int2Num(150), NaN),
          \* 23:01:00-01:00 of the day before
          Row(RunKey(456, <<>>), "running", Time("minus", -3540, -3600), Int2Num(0),
              Int2Num(0), Int2Num(120), NaN)}

SeqsUpTo(S, n) == UNION {[1..m -> S] : m \in 0..n}

-----------------------------------------------------------------------------
(* Placeholders of the components a specification leaves alone *)

Idle ==
    /\ NoService
    /\ gpx_doc = <<>> /\ gpx_out = NotDecoded
    /\ fit_file = <<>> /\ fit_out = NoFitCall
    /\ archive = <<>> /\ zip_out = NoZipCall
    /\ cache = <<>> /\ calls = <<>> /\ executions = <<>>

-----------------------------------------------------------------------------
(* SpecRuns: analyze_runs applied to a bounded record set *)

InitRuns ==
    /\ df \in SeqsUpTo(Rows, MaxRecords)
    /\ analysis = NoCall
    /\ Idle

AnalyzeRuns ==
    /\ analysis.kind = "none"
    /\ analysis' = analyze_runs(df)
    /\ UNCHANGED <<df, gpx_doc, gpx_out, fit_file, fit_out, archive, zip_out,
                   cache, calls, executions,
                   service>>

NextRuns == AnalyzeRuns

SpecRuns == InitRuns /\ [][NextRuns]_vars

\* the running rows of df that parse_time_df keeps for run_id
RowsOf(run_id) ==
    SelectSeq(df, LAMBDA r : /\ r.run = run_id
                             /\ r.activity_type = "running"
                             /\ TimeMatches(r.time))

\* C4: for every RunSummary produced by analyze_runs, pace_sec_per_km is
\* present (not None, not NaN) if and only if distance_km > 0.
C4_PaceIffDistance ==
    analysis.kind = "ok" =>
        \A i \in 1..Len(analysis.runs) :
            LET r == analysis.runs[i]
            IN  IsNum(r.pace_sec_per_km) <=> (IsNum(r.distance_km) /\ r.distance_km.n > 0)

\* C4 witness: one result holds a run with a positive distance and a pace, and
\* a run of distance 0 without a pace.
C4_Witness ==
    /\ analysis.kind = "ok"
    /\ \E i, j \in 1..Len(analysis.runs) :
        /\ IsNum(analysis.runs[i].distance_km)
        /\ analysis.runs[i].distance_km.n > 0
        /\ IsNum(analysis.runs[i].pace_sec_per_km)
        /\ IsNum(analysis.runs[j].distance_km)
        /\ analysis.runs[j].distance_km.n = 0
        /\ ~IsNum(analysis.runs[j].pace_sec_per_km)

\* C5: for every RunSummary with distance_km > 0, pace_sec_per_km equals
\* duration_sec / distance_km, and pace_min_km equals pace_sec_per_km / 60.
C5_PaceIsDurationPerKm ==
    analysis.kind = "ok" =>
        \A i \in 1..Len(analysis.runs) :
            LET r == analysis.runs[i]
            IN  (IsNum(r.distance_km) /\ r.distance_km.n > 0) =>
                    /\ r.pace_sec_per_km = FDiv(r.duration_sec, r.distance_km)
                    /\ r.pace_min_km = FDiv(r.pace_sec_per_km, Int2Num(60))

\* C6: a run whose records hold no heart-rate sample has avg_hr and
\* aerobic_pct None, and no RunSummary field is NaN.
C6_NoHeartRateIsNull ==
    analysis.kind = "ok" =>
        \A i \in 1..Len(analysis.runs) :
            LET r == analysis.runs[i]
            IN  /\ (\A k \in 1..Len(RowsOf(r.run_id)) : IsNA(RowsOf(r.run_id)[k].hr)) =>
                        (r.avg_hr = None /\ r.aerobic_pct = None)
                /\ NaN \notin {r.distance_km, r.duration_sec, r.pace_sec_per_km,
                               r.avg_hr, r.aerobic_pct, r.pace_min_km}

\* C7: the five zone percentages sum to 100 whenever a running record has a
\* heart-rate value, and all five are 0 when none has.
C7_ZonesSumTo100 ==
    analysis.kind = "ok" =>
        IF \E k \in 1..Len(df) : df[k].activity_type = "running" /\ IsNum(df[k].hr)
        THEN SumSeq(analysis.zone_pct) = Int2Num(100)
        ELSE \A z \in 1..Len(analysis.zone_pct) : analysis.zone_pct[z] = Int2Num(0)

ValidCoordinates(r) == IsNum(r.lat) /\ IsNum(r.lon)

\* C12: a run with fewer than 2 points of valid coordinates has distance_km 0
\* and no pace_sec_per_km, and analyze_runs does not fail on it.
C12_FewPointsZeroDistance ==
    analysis.kind = "ok" =>
        \A i \in 1..Len(analysis.runs) :
            LET r == analysis.runs[i]
            IN  Len(SelectSeq(RowsOf(r.run_id), ValidCoordinates)) < 2 =>
                    /\ r.distance_km = Int2Num(0)
                    /\ ~IsNum(r.pace_sec_per_km)

\* C17: with at least one running record in the record set, the result is the
\* result for the running records alone: records of other activity types
\* change nothing of the runs, the metrics and the zone percentages.
C17_OnlyRunningRecordsCount ==
    (/\ analysis.kind # "none"
     /\ \E k \in 1..Len(df) : df[k].activity_type = "running") =>
        analysis = analyze_runs(SelectSeq(df, LAMBDA r : r.activity_type = "running"))

\* C17 witness: a result for a record set that holds a running record and a
\* record of another activity type.
C17_Witness ==
    /\ analysis.kind = "ok"
    /\ \E k \in 1..Len(df) : df[k].activity_type = "running"
    /\ \E k \in 1..Len(df) : df[k].activity_type # "running"

\* a timestamp that is present: naive, or aware with any numeric UTC offset
TimePresent(time) == time.tz \in {"naive", "plus", "minus"}

\* C18: every running record whose timestamp is present, naive or aware with a
\* positive, zero or negative UTC offset, is retained by the timestamp
\* normalization: analyze_runs does not fail and reports the record's run.
C18_EveryTimestampRetained ==
    (/\ analysis.kind # "none"
     /\ \E k \in 1..Len(df) :
            df[k].activity_type = "running" /\ TimePresent(df[k].time)) =>
        /\ analysis.kind = "ok"
        /\ \A k \in 1..Len(df) :
               (df[k].activity_type = "running" /\ TimePresent(df[k].time)) =>
                   \E i \in 1..Len(analysis.runs) : analysis.runs[i].run_id = df[k].run

\* C19: distance_km of a run is the sum of the haversine distances between
\* consecutive records of the run, sorted by timestamp and without the records
\* of invalid coordinates; the device-reported distance changes nothing.
C19_DistanceIsHaversineSum ==
    analysis.kind = "ok" =>
        \A i \in 1..Len(analysis.runs) :
            LET r == analysis.runs[i]
                g == SortByTime(parse_time_df(RowsOf(r.run_id)))
            IN  r.distance_km = Div(Walk(SelectSeq(g, ValidCoordinates)), Int2Num(1000))

\* seconds on the UTC timeline of a timestamp that parse_time_df keeps
Utc(time) == IF time.tz = "plus" THEN time.wall - time.off ELSE time.wall

RunningSamples == SortByTime(parse_time_df(running_df(df)))

\* the largest heart rate of the running records
MaxObservedHr == SeriesMax(Column(RunningSamples, LAMBDA r : r.hr))

\* the zone a heart rate belongs to when the 90-100% zone includes ratio 1.0
CountedInZone(hr, z) ==
    /\ IsNum(hr)
    /\ LessEq(Num(HR_ZONES[z][1], 10), Div(hr, MaxObservedHr))
    /\ \/ Less(Div(hr, MaxObservedHr), Num(HR_ZONES[z][2], 10))
       \/ z = Len(HR_ZONES) /\ Div(hr, MaxObservedHr) = Int2Num(1)

\* minutes (one decimal) of the elapsed times of the samples of zone z
ZoneMinutes(z) ==
    LET idx  == SelectSeq([i \in 1..Len(RunningSamples) |-> i],
                          LAMBDA i : CountedInZone(RunningSamples[i].hr, z))
        secs == SumSeq([j \in 1..Len(idx) |->
                            Int2Num(delta_time(RunningSamples, idx[j]))])
    IN  Num(RoundHalfEven(secs.n * 10, 60), 10)

\* C21: the elapsed time of every running sample with a heart rate (the gap to
\* the previous sample of the whole running set, 0 for the first) is counted in
\* exactly one of the five zones, chosen by hr / max observed hr; a sample at
\* the maximum heart rate (ratio 1.0) is counted in the 90-100% zone, so the
\* percentages are those of the minutes counted that way.
C21_MaxHeartRateCountedInTopZone ==
    (analysis.kind = "ok" /\ IsNum(MaxObservedHr) /\ MaxObservedHr.n > 0) =>
        LET total == SumSeq([z \in 1..Len(HR_ZONES) |-> ZoneMinutes(z)])
        IN  \A z \in 1..Len(HR_ZONES) :
                analysis.zone_pct[z] =
                    IF total.n > 0
                    THEN Mul(Div(ZoneMinutes(z), total), Int2Num(100))
                    ELSE Int2Num(0)

-----------------------------------------------------------------------------
(* SpecMetrics: analyze_runs applied to record sets of marathon length *)

\* 00:00:00 naive and 03:20:39+01:00, 8439 seconds apart on the UTC timeline
MetricTimes == {Time("naive", 0, 0), Time("plus", 12039, 3600)}

\* Rows at one place whose device distance is 0, 10 km or the marathon
\* distance, a row without a usable timestamp and a row of another activity
\* type
MetricRows ==
    {Row(run, "running", t, Int2Num(0), Int2Num(0), NaN, dist) :
        run \in RunIds, t \in MetricTimes,
        dist \in {Int2Num(0), Int2Num(10000), Int2Num(42195)}}
    \cup {Row(RunKey(123, <<>>), "running", NaT, Int2Num(0), Int2Num(0), NaN,
              Int2Num(10000)),
          Row(RunKey(456, <<>>), "cycling", Time("naive", 0, 0), Int2Num(0),
              Int2Num(0), NaN, Int2Num(42195))}

InitMetrics ==
    /\ df \in SeqsUpTo(MetricRows, MaxMetricRecords)
    /\ analysis = NoCall
    /\ Idle

SpecMetrics == InitMetrics /\ [][NextRuns]_vars

\* the rows of the result with distance_km >= 42.195
MarathonRuns ==
    SelectSeq(analysis.runs,
              LAMBDA r : IsNum(r.distance_km) /\ ~Less(r.distance_km, Num(42195, 1000)))

\* the mean of pace_sec_per_km over the rows of MarathonRuns
MarathonPace ==
    Div(SumSeq([i \in 1..Len(MarathonRuns) |-> MarathonRuns[i].pace_sec_per_km]),
        Int2Num(Len(MarathonRuns)))

\* C13: "Marathons completed" is the number of RunSummary rows with
\* distance_km >= 42.195, and the average marathon pace is the mean of
\* pace_sec_per_km over exactly those rows, reported in min/km to 2 decimals
\* (the dash without such a row).
C13_MarathonMetrics ==
    analysis.kind = "ok" =>
        /\ analysis.metrics[6] = Int2Num(Len(MarathonRuns))
        /\ IF MarathonRuns = <<>>
           THEN /\ analysis.aggregates.avg_marathon_pace_sec = NaN
                /\ analysis.metrics[7] = Dash
           ELSE /\ analysis.aggregates.avg_marathon_pace_sec = MarathonPace
                /\ analysis.metrics[7] =
                       Num(RoundHalfEven(MarathonPace.n * 100, MarathonPace.d * 60), 100)

\* C13 witness: a run of the marathon distance and a run of 10 km with another
\* pace: one marathon is counted and the marathon pace is the pace of that run.
C13_Witness ==
    /\ analysis.kind = "ok"
    /\ Len(analysis.runs) = 2
    /\ analysis.runs[1].distance_km = Num(42195, 1000)
    /\ analysis.runs[2].distance_km = Int2Num(10)
    /\ analysis.runs[1].pace_sec_per_km # analysis.runs[2].pace_sec_per_km
    /\ analysis.metrics[6] = Int2Num(1)
    /\ analysis.aggregates.avg_marathon_pace_sec = analysis.runs[1].pace_sec_per_km

\* C14: for every record set analyze_runs returns a result, and an aggregate
\* pace without a valid denominator (total distance 0, no run with a pace, no
\* marathon) is the dash in it.
C14_UndefinedAggregatesAreMarked ==
    analysis.kind # "none" =>
        /\ analysis.kind = "ok"
        /\ (\A i \in 1..Len(analysis.runs) :
                ~IsNum(analysis.runs[i].distance_km) \/ analysis.runs[i].distance_km.n = 0)
               => analysis.metrics[4] = Dash
        /\ (\A i \in 1..Len(analysis.runs) : ~IsNum(analysis.runs[i].pace_sec_per_km))
               => analysis.metrics[5] = Dash
        /\ MarathonRuns = <<>> => analysis.metrics[7] = Dash

-----------------------------------------------------------------------------
(* SpecGpx: parse_gpx applied to a bounded GPX document *)

\* Points that vary the coordinates and points that vary the optional children
Trkpts ==
    {Trkpt(lat, lon, Absent, IsoText("Z", 0, 0), Int2Num(140)) :
        lat \in {Absent, Garbage, Int2Num(0), Int2Num(1)},
        lon \in {Absent, Garbage, Int2Num(0)}}
    \cup {Trkpt(Int2Num(0), Int2Num(0), ele, time, hr) :
             ele \in {Absent, Int2Num(10)},
             time \in {NoTimeText, BadTimeText, IsoText("Z", 60, 0),
                       IsoText("+", 3660, 3600), IsoText("-", 0, 3600), IsoText("", 0, 0)},
             hr \in {Absent, Garbage, Int2Num(150)}}

GpxDocs ==
    {GpxDoc(Path("activities/", 456, <<"gpx">>), wf, type, pts) :
        wf \in BOOLEAN, type \in {NoType, "running"},
        pts \in SeqsUpTo(Trkpts, MaxTrkpts)}

IdleButGpx ==
    /\ NoService
    /\ df = <<>> /\ analysis = NoCall
    /\ fit_file = <<>> /\ fit_out = NoFitCall
    /\ archive = <<>> /\ zip_out = NoZipCall
    /\ cache = <<>> /\ calls = <<>> /\ executions = <<>>

InitGpx ==
    /\ gpx_doc \in GpxDocs
    /\ gpx_out = NotDecoded
    /\ IdleButGpx

ParseGpx ==
    /\ gpx_out.kind = "none"
    /\ gpx_out' = parse_gpx(gpx_doc)
    /\ UNCHANGED <<df, analysis, gpx_doc, fit_file, fit_out, archive, zip_out,
                   cache, calls, executions,
                   service>>

NextGpx == ParseGpx

SpecGpx == InitGpx /\ [][NextGpx]_vars

WellFormedTrkpt(pt) == pt.lat.k = "num" /\ pt.lon.k = "num"

\* C9: in a document that parses as XML, a track point whose lat or lon is
\* missing or no number is dropped: parse_gpx does not raise and returns one
\* TrackPoint for every other point, in order.
C9_BadPointDropped ==
    (gpx_out.kind # "none" /\ gpx_doc.wellformed) =>
        LET good == SelectSeq(gpx_doc.trkpts, WellFormedTrkpt)
        IN  /\ gpx_out.kind = "ok"
            /\ Len(gpx_out.points) = Len(good)
            /\ \A i \in 1..Len(good) :
                /\ gpx_out.points[i].lat = good[i].lat
                /\ gpx_out.points[i].lon = good[i].lon

-----------------------------------------------------------------------------
(* SpecFit: parse_fit applied to a bounded FIT file *)

\* 2^24 semicircles are 45/32 degrees, 2^29 semicircles 45 degrees
FitRecords ==
    {FitRecord(lat, lon, Stamp(0), Int2Num(140), None) :
        lat \in {None, Int2Num(0), Int2Num(16777216)},
        lon \in {None, Int2Num(0), Int2Num(536870912)}}
    \cup {FitRecord(Int2Num(0), Int2Num(0), ts, hr, alt) :
             ts \in {NoStamp, RawStamp(7), Stamp(60)},
             hr \in {None, Int2Num(150), Num(301, 2)},
             alt \in {None, Int2Num(10)}}

FitMetadata ==
    {<< <<>>, <<>> >>,
     << <<SportMsg("running", NoType, NoType, NoType)>>,
        <<SportMsg("cycling", NoType, NoType, NoType)>> >>,
     << <<SportMsg(Zero, "", NoType, NoType)>>,
        <<SportMsg(NoType, NoType, "running", NoType)>> >>}

FitFiles ==
    {FitFile(Path("activities/", 123, suffixes), damaged, meta[1], meta[2], recs) :
        suffixes \in {<<"fit">>, <<"fit", "gz">>}, damaged \in BOOLEAN,
        meta \in FitMetadata, recs \in SeqsUpTo(FitRecords, MaxFitRecords)}

IdleButFit ==
    /\ NoService
    /\ df = <<>> /\ analysis = NoCall
    /\ gpx_doc = <<>> /\ gpx_out = NotDecoded
    /\ archive = <<>> /\ zip_out = NoZipCall
    /\ cache = <<>> /\ calls = <<>> /\ executions = <<>>

InitFit ==
    /\ fit_file \in FitFiles
    /\ fit_out = NoFitCall
    /\ IdleButFit

ParseFit ==
    /\ fit_out.kind = "none"
    /\ fit_out' = parse_fit(fit_file)
    /\ UNCHANGED <<df, analysis, gpx_doc, gpx_out, fit_file, archive, zip_out,
                   cache, calls, executions,
                   service>>

NextFit == ParseFit

SpecFit == InitFit /\ [][NextFit]_vars

HasCoordinates(record) ==
    record.position_lat.k = "num" /\ record.position_long.k = "num"

\* degrees * 2^31 / 180 = semicircles
DegreesAre(deg, semicircles) ==
    /\ deg.k = "num"
    /\ Mul(deg, Num(536870912, 45)) = semicircles

\* C10: parse_fit returns, in order, exactly one TrackPoint for every record
\* message that has both position_lat and position_long and nothing for the
\* others; the point carries the record's timestamp, heart rate (as an
\* integer) and altitude, and its coordinates in degrees.
C10_CoordinateLessRecordsRemoved ==
    fit_out.kind = "ok" =>
        LET kept == SelectSeq(fit_file.records, HasCoordinates)
        IN  /\ Len(fit_out.points) = Len(kept)
            /\ \A i \in 1..Len(kept) :
                LET pt == fit_out.points[i]
                    rec == kept[i]
                IN  /\ DegreesAre(pt.lat, rec.position_lat)
                    /\ DegreesAre(pt.lon, rec.position_long)
                    /\ pt.ele = rec.altitude
                    /\ (rec.timestamp.k = "datetime" =>
                            pt.time.tz = "naive" /\ pt.time.wall = rec.timestamp.wall)
                    /\ (rec.timestamp.k # "datetime" => pt.time = NoTime)
                    /\ (rec.heart_rate.k # "num" => pt.hr = None)
                    /\ (rec.heart_rate.k = "num" =>
                            /\ pt.hr.k = "num" /\ pt.hr.d = 1
                            /\ LessEq(pt.hr, rec.heart_rate)
                            /\ Less(rec.heart_rate, Add(pt.hr, Int2Num(1))))

\* C10 witness: a decoded file where a record without latitude (but with a
\* heart rate) was removed and a record with coordinates was kept.
C10_Witness ==
    /\ fit_out.kind = "ok"
    /\ Len(fit_out.points) = 1
    /\ Len(fit_file.records) = 2
    /\ fit_file.records[1].position_lat = None
    /\ fit_file.records[1].heart_rate.k = "num"
    /\ HasCoordinates(fit_file.records[2])

\* C11: after parse_fit returned or raised, the stream it opened is closed.
C11_StreamClosed ==
    fit_out.kind # "none" => fit_out.fit_io = "closed"

-----------------------------------------------------------------------------
(* SpecSport: parse_fit applied to FIT files that vary the sport and session
   messages *)

MaxMessages == 2

\* sport messages: nothing usable, a sport, a sub_sport alone, a name alone,
\* and a sport_name alone (a key the scan of the sport messages does not read)
SportMessages ==
    {SportMsg(Zero, "", NoType, NoType),
     SportMsg("running", "trail", NoType, "Morning Run"),
     SportMsg(NoType, "treadmill", NoType, NoType),
     SportMsg("", Zero, NoType, "Morning Run"),
     SportMsg(NoType, NoType, "walking", NoType)}

\* session messages: nothing usable, a sport, a sport_name alone, a name alone
SessionMessages ==
    {SportMsg(NoType, Zero, "", NoType),
     SportMsg("cycling", NoType, NoType, NoType),
     SportMsg(Zero, NoType, "hiking", "Evening Ride"),
     SportMsg(NoType, "", NoType, "Evening Ride")}

\* one record with coordinates, so that the sport shows in a point
SportFiles ==
    {FitFile(Path("activities/", 123, <<"fit">>), FALSE, sport, session,
             <<FitRecord(Int2Num(0), Int2Num(0), Stamp(0), Int2Num(140), None)>>) :
        sport \in SeqsUpTo(SportMessages, MaxMessages),
        session \in SeqsUpTo(SessionMessages, MaxMessages)}

InitSport ==
    /\ fit_file \in SportFiles
    /\ fit_out = NoFitCall
    /\ IdleButFit

SpecSport == InitSport /\ [][NextFit]_vars

NonEmpty(val) == val \notin {NoType, "", Zero}

\* the values of the sport messages in scanning order: message by message,
\* keys sport, sub_sport, name
SportValues ==
    [k \in 1..(3 * Len(fit_file.sport)) |->
        LET m == fit_file.sport[((k - 1) \div 3) + 1]
        IN  <<m.sport, m.sub_sport, m.name>>[((k - 1) % 3) + 1]]

\* the values of the session messages in scanning order: message by message,
\* keys sport, sub_sport, sport_name, name
SessionValues ==
    [k \in 1..(4 * Len(fit_file.session)) |->
        LET m == fit_file.session[((k - 1) \div 4) + 1]
        IN  <<m.sport, m.sub_sport, m.sport_name, m.name>>[((k - 1) % 4) + 1]]

HasNonEmpty(vals) == \E k \in 1..Len(vals) : NonEmpty(vals[k])

FirstNonEmpty(vals) ==
    vals[CHOOSE k \in 1..Len(vals) :
            /\ NonEmpty(vals[k])
            /\ \A j \in 1..(k - 1) : ~NonEmpty(vals[j])]

\* C23: the activity type of a FIT file is the first non-empty value (not
\* None, "" or 0) found scanning all sport messages (keys sport, sub_sport,
\* name), only then the session messages (keys sport, sub_sport, sport_name,
\* name), and "unknown" only when both scans find nothing; a session value
\* never overrides a value of a sport message.
C23_SportMessagesBeforeSessions ==
    fit_out.kind = "ok" =>
        \A i \in 1..Len(fit_out.points) :
            fit_out.points[i].activity_type =
                IF HasNonEmpty(SportValues) THEN FirstNonEmpty(SportValues)
                ELSE IF HasNonEmpty(SessionValues) THEN FirstNonEmpty(SessionValues)
                ELSE "unknown"

\* C23 witness: a file whose first sport message has nothing usable, whose
\* second has the sub_sport "treadmill" and whose session says "cycling" is
\* decoded as "treadmill".
C23_Witness ==
    /\ fit_out.kind = "ok"
    /\ Len(fit_out.points) = 1
    /\ fit_file.sport = <<SportMsg(Zero, "", NoType, NoType),
                          SportMsg(NoType, "treadmill", NoType, NoType)>>
    /\ fit_file.session = <<SportMsg("cycling", NoType, NoType, NoType)>>
    /\ fit_out.points[1].activity_type = "treadmill"

-----------------------------------------------------------------------------
(* SpecZip: process_zip applied to a bounded archive *)

Names ==
    {Path("activities/", 123, <<"fit", "gz">>),
     Path("activities/", 124, <<"fit">>),
     Path("activities/", 456, <<"gpx">>),
     Path("activities/", 456, <<"fit">>),
     Path("activities/", 789, <<"txt">>),
     Path("old_activities/", 456, <<"gpx">>),
     Path("media/", 456, <<"gpx">>)}

RunningMsg == SportMsg("running", NoType, NoType, NoType)

Bodies ==
    {\* a FIT activity, "running", one point with coordinates and one without
     Body("fit", FALSE, NoType, <<RunningMsg>>, <<>>,
          <<FitRecord(Int2Num(0), Int2Num(0), Stamp(0), Int2Num(140), None),
            FitRecord(None, None, Stamp(60), Int2Num(150), None)>>, <<>>),
     \* a FIT activity whose only record has no coordinates
     Body("fit", FALSE, NoType, <<RunningMsg>>, <<>>,
          <<FitRecord(None, None, Stamp(0), Int2Num(140), None)>>, <<>>),
     \* damaged bytes
     Body("fit", TRUE, NoType, <<>>, <<>>, <<>>, <<>>),
     \* a GPX run of two points
     Body("gpx", FALSE, "running", <<>>, <<>>, <<>>,
          <<Trkpt(Int2Num(0), Int2Num(0), Absent, IsoText("Z", 0, 0), Int2Num(140)),
            Trkpt(Int2Num(1), Int2Num(0), Absent, IsoText("Z", 60, 0), Int2Num(150))>>),
     \* a GPX ride
     Body("gpx", FALSE, "cycling", <<>>, <<>>, <<>>,
          <<Trkpt(Int2Num(0), Int2Num(0), Absent, IsoText("Z", 0, 0), Absent)>>),
     \* a GPX run with a point that has no lat attribute
     Body("gpx", FALSE, "running", <<>>, <<>>, <<>>,
          <<Trkpt(Absent, Int2Num(0), Absent, IsoText("Z", 0, 0), Absent),
            Trkpt(Int2Num(0), Int2Num(0), Absent, IsoText("Z", 60, 0), Absent)>>),
     \* a GPX document without track points
     Body("gpx", FALSE, "running", <<>>, <<>>, <<>>, <<>>)}

Entries == {Entry(name, body) : name \in Names, body \in Bodies}

IdleButZip ==
    /\ NoService
    /\ gpx_doc = <<>> /\ gpx_out = NotDecoded
    /\ fit_file = <<>> /\ fit_out = NoFitCall
    /\ cache = <<>> /\ calls = <<>> /\ executions = <<>>

InitZip ==
    /\ archive \in SeqsUpTo(Entries, MaxEntries)
    /\ zip_out = NoZipCall
    /\ df = <<>>
    /\ analysis = NoCall
    /\ IdleButZip

\* one call of the body: df is the frame of line 118
ProcessZip ==
    /\ zip_out.kind = "none"
    /\ df' = unified(archive)
    /\ zip_out' = process_zip(archive, df')
    /\ UNCHANGED <<analysis, gpx_doc, gpx_out, fit_file, fit_out, archive, cache,
                   calls, executions,
                   service>>

NextZip == ProcessZip

SpecZip == InitZip /\ [][NextZip]_vars

\* the entries process_zip is to decode: under "activities", with an activity
\* file suffix
IsActivityFile(name) ==
    name.dir = "activities/" /\ (IsFitName(name) \/ IsGpxName(name))

\* what decoding entry i by itself gives
DecodedAlone(i) == decode(archive[i].name, extracted(archive, archive[i].name))

\* the file name without its activity-file extension
ActivityId(name) == RunKey(name.base, <<>>)

\* the runs the decodable activity files hold: their running points with a
\* usable timestamp
RunsOfDecodable ==
    UNION {{DecodedAlone(j).points[k].run : k \in
               {m \in 1..Len(DecodedAlone(j).points) :
                   /\ DecodedAlone(j).points[m].activity_type = "running"
                   /\ TimeMatches(DecodedAlone(j).points[m].time)}} :
           j \in {i \in 1..Len(archive) :
                     IsActivityFile(archive[i].name) /\ DecodedAlone(i).kind = "ok"}}

\* C1: when one archive entry fails to decode and another entry contributes
\* points, process_zip raises nothing and returns the runs of the decodable
\* entries only.
C1_CorruptEntrySkipped ==
    (/\ zip_out.kind # "none"
     /\ \E i \in 1..Len(archive) :
            IsActivityFile(archive[i].name) /\ DecodedAlone(i).kind = "raise"
     /\ RunsOfDecodable # {}) =>
        /\ zip_out.kind = "ok"
        /\ {zip_out.runs[i].run_id : i \in 1..Len(zip_out.runs)} = RunsOfDecodable

\* C2: an archive with no entry under an "activities" path, or whose
\* considered entries yield no point, makes process_zip fail with the no-data
\* ValueError; it returns no result.
C2_NoDataError ==
    (/\ zip_out.kind # "none"
     /\ \/ \A i \in 1..Len(archive) : archive[i].name.dir # "activities/"
        \/ \A i \in 1..Len(archive) :
               IsActivityFile(archive[i].name) => DecodedAlone(i).points = <<>>) =>
        /\ zip_out.kind = "raise"
        /\ zip_out.exc = NoDataError

\* C8: every point of the unified record set carries as run the file name of
\* an archive entry without its whole activity-file extension (.fit, .fit.gz
\* or .gpx).
C8_RunIdIsNameWithoutExtension ==
    zip_out.kind # "none" =>
        \A k \in 1..Len(df) :
            \E i \in 1..Len(archive) :
                /\ MentionsActivities(archive[i].name)
                /\ IsFitName(archive[i].name) \/ IsGpxName(archive[i].name)
                /\ df[k].run = ActivityId(archive[i].name)

\* an archive without any activity file
NoActivityFiles == <<Entry(Path("media/", 456, <<"gpx">>),
                           Body("text", FALSE, NoType, <<>>, <<>>, <<>>, <<>>))>>

\* C15: when process_zip fails for lack of data although the archive holds
\* activity files (none of which produced a point), the message the caller
\* sees differs from the message for an archive without activity files.
C15_NoDataMessagesDiffer ==
    (/\ zip_out.kind = "raise"
     /\ zip_out.exc = NoDataError
     /\ \E i \in 1..Len(archive) : IsActivityFile(archive[i].name)) =>
        upload_error(zip_out).detail
            # upload_error(process_zip(NoActivityFiles, unified(NoActivityFiles))).detail

\* the rows entry i contributes when it is decoded
RowsOfEntry(i) ==
    {to_row(DecodedAlone(i).points[k]) : k \in 1..Len(DecodedAlone(i).points)}

\* C16: an entry is decoded if and only if its path has the segment
\* "activities" and its name ends with .fit, .fit.gz or .gpx: the unified
\* record set holds the points of those entries and of no other entry.
C16_OnlyActivityFilesDecoded ==
    zip_out.kind # "none" =>
        /\ \A k \in 1..Len(df) :
               \E i \in 1..Len(archive) :
                   IsActivityFile(archive[i].name) /\ df[k] \in RowsOfEntry(i)
        /\ (\A i \in 1..Len(archive) :
                IsActivityFile(archive[i].name) => DecodedAlone(i).kind = "ok")
               => \A i \in 1..Len(archive) :
                      IsActivityFile(archive[i].name) =>
                          RowsOfEntry(i) \subseteq {df[k] : k \in 1..Len(df)}

\* the activity files whose points are among the records of a run
SourcesOf(run) ==
    {archive[i].name : i \in
        {j \in 1..Len(archive) :
            /\ IsActivityFile(archive[j].name)
            /\ \E row \in RowsOfEntry(j) :
                   row.run = run /\ row \in {df[k] : k \in 1..Len(df)}}}

\* C24: the points of two different archive entries are never grouped into
\* the same run: each run_id of the unified record set identifies exactly one
\* source entry.
C24_RunIdentifiesOneEntry ==
    zip_out.kind # "none" =>
        \A k \in 1..Len(df) : Cardinality(SourcesOf(df[k].run)) <= 1

-----------------------------------------------------------------------------
(* SpecCache: @lru_cache(maxsize=10) around process_zip, called concurrently *)

\* line 92
maxsize == 10

Callers == 1..MaxCallers

\* The byte contents uploaded: an export with one GPX run, an export with a
\* FIT activity and a ride, and a zip without activity files
Uploads ==
    {<<Entry(Path("activities/", 456, <<"gpx">>),
             Body("gpx", FALSE, "running", <<>>, <<>>, <<>>,
                  <<Trkpt(Int2Num(0), Int2Num(0), Absent, IsoText("Z", 0, 0),
                          Int2Num(140))>>))>>,
     <<Entry(Path("activities/", 124, <<"fit">>),
             Body("fit", FALSE, NoType, <<RunningMsg>>, <<>>,
                  <<FitRecord(Int2Num(0), Int2Num(0), Stamp(0), Int2Num(140), None)>>,
                  <<>>))>>,
     <<Entry(Path("media/", 456, <<"gpx">>),
             Body("text", FALSE, NoType, <<>>, <<>>, <<>>, <<>>))>>}

CallIdle == [pc |-> "idle", key |-> <<>>, result |-> NoZipCall]

IdleButCache ==
    /\ NoService
    /\ analysis = NoCall
    /\ gpx_doc = <<>> /\ gpx_out = NotDecoded
    /\ fit_file = <<>> /\ fit_out = NoFitCall
    /\ archive = <<>> /\ zip_out = NoZipCall

InitCache ==
    /\ cache = <<>>
    /\ calls = [c \in Callers |-> CallIdle]
    /\ executions = [z \in Uploads |-> 0]
    /\ df = <<>>
    /\ IdleButCache

Cached(z) == \E i \in 1..Len(cache) : cache[i].key = z

\* the wrapper finds the key: the cached result is returned and the entry
\* becomes the most recent one
CacheHit(c, z) ==
    /\ calls[c].pc = "idle"
    /\ Cached(z)
    /\ LET i == CHOOSE j \in 1..Len(cache) : cache[j].key = z
       IN  /\ calls' = [calls EXCEPT ![c] = [pc |-> "done", key |-> z,
                                             result |-> cache[i].value]]
           /\ cache' = <<cache[i]>> \o SubSeq(cache, 1, i - 1)
                                    \o SubSeq(cache, i + 1, Len(cache))
    /\ UNCHANGED <<executions, df, analysis, gpx_doc, gpx_out, fit_file, fit_out,
                   archive, zip_out,
                   service>>

\* the wrapper does not find the key and calls the body, without holding any
\* lock while the body runs
CacheMiss(c, z) ==
    /\ calls[c].pc = "idle"
    /\ ~Cached(z)
    /\ calls' = [calls EXCEPT ![c] = [pc |-> "running", key |-> z,
                                      result |-> NoZipCall]]
    /\ UNCHANGED <<cache, executions, df, analysis, gpx_doc, gpx_out, fit_file,
                   fit_out, archive, zip_out,
                   service>>

\* the body ends. An exception leaves the wrapper without an entry; a result is
\* stored as the most recent entry, the least recent one making room, unless
\* the key was stored while the body ran. df is the frame the body built
BodyEnds(c) ==
    /\ calls[c].pc = "running"
    /\ executions[calls[c].key] < MaxExecutions
    /\ df' = unified(calls[c].key)
    /\ calls' = [calls EXCEPT ![c] = [pc |-> "done", key |-> calls[c].key,
                                      result |-> process_zip(calls[c].key, df')]]
    /\ LET z == calls[c].key
           out == calls'[c].result
       IN  /\ executions' = [executions EXCEPT ![z] = @ + 1]
           /\ cache' = IF out.kind = "raise" \/ Cached(z) THEN cache
                       ELSE SubSeq(<<[key |-> z, value |-> out]>> \o cache, 1,
                                   IF Len(cache) + 1 > maxsize THEN maxsize
                                   ELSE Len(cache) + 1)
    /\ UNCHANGED <<analysis, gpx_doc, gpx_out, fit_file, fit_out, archive,
                   zip_out,
                   service>>

\* the caller has its result (or exception) and may call again
Return(c) ==
    /\ calls[c].pc = "done"
    /\ calls' = [calls EXCEPT ![c] = CallIdle]
    /\ UNCHANGED <<cache, executions, df, analysis, gpx_doc, gpx_out, fit_file,
                   fit_out, archive, zip_out,
                   service>>

NextCache ==
    \E c \in Callers :
        \/ \E z \in Uploads : CacheHit(c, z)
        \/ \E z \in Uploads : CacheMiss(c, z)
        \/ BodyEnds(c)
        \/ Return(c)

SpecCache == InitCache /\ [][NextCache]_vars

\* C3: for every input the pipeline body runs at most once, whatever the
\* interleaving of the calls and however often the input is given again.
C3_AtMostOneComputation ==
    \A z \in Uploads : executions[z] <= 1


-----------------------------------------------------------------------------
(* SpecService: uploads and queries against the sessions table *)

MaxSessions == 2

\* no name, a zip name, and names that do not end with ".zip"
FileNames ==
    {<<>>, <<"export", "zip">>, <<"export", "tar", "gz">>, <<"export", "ZIP">>}

\* the uploaded contents: those of Uploads and an export whose only activity
\* file is damaged
Contents ==
    Uploads \cup
    {<<Entry(Path("activities/", 123, <<"fit", "gz">>),
             Body("fit", TRUE, NoType, <<>>, <<>>, <<>>, <<>>))>>}

\* the identifiers a client may ask for
SessionIds == 0..(MaxSessions + 1)

IdleButService ==
    /\ analysis = NoCall
    /\ gpx_doc = <<>> /\ gpx_out = NotDecoded
    /\ fit_file = <<>> /\ fit_out = NoFitCall
    /\ cache = <<>> /\ calls = <<>> /\ executions = <<>>

InitService ==
    /\ NoService
    /\ archive = <<>> /\ df = <<>> /\ zip_out = NoZipCall
    /\ IdleButService

\* POST /upload-data: process_zip runs on the content when the name is
\* accepted; the table holds at most MaxSessions rows
UploadData ==
    \E filename \in FileNames, content \in Contents :
        /\ archive' = content
        /\ IF IsZipName(filename)
           THEN df' = unified(content) /\ zip_out' = process_zip(content, df')
           ELSE UNCHANGED <<df, zip_out>>
        /\ sessions' = upload_data(filename, zip_out', sessions).db
        /\ Len(sessions') <= MaxSessions
        /\ response' = Exchange("upload_data", filename, 0,
                                upload_data(filename, zip_out', sessions).answer)
        /\ returned' = IF response'.answer.status_code = 200
                       THEN Append(returned, response'.answer.body)
                       ELSE returned
        /\ UNCHANGED <<analysis, gpx_doc, gpx_out, fit_file, fit_out, cache, calls,
                       executions>>

\* GET /results/{session_id}
GetResults ==
    \E session_id \in SessionIds :
        /\ response' = Exchange("get_results", <<>>, session_id,
                                get_results(session_id, sessions))
        /\ UNCHANGED <<df, analysis, gpx_doc, gpx_out, fit_file, fit_out, archive,
                       zip_out, cache, calls, executions, sessions, returned>>

NextService == UploadData \/ GetResults

SpecService == InitService /\ [][NextService]_vars

\* C25: an upload whose file name does not end with ".zip", or whose content
\* makes process_zip raise, is answered with status 400, adds no row to the
\* sessions table and returns no session_id.
C25_RejectedUploadStoresNothing ==
    [][(/\ response'.op = "upload_data"
        /\ \/ ~IsZipName(response'.filename)
           \/ zip_out'.kind = "raise")
       => /\ response'.answer.status_code = 400
          /\ sessions' = sessions
          /\ "session_id" \notin DOMAIN response'.answer.body]_vars

\* C25 witness: after a stored session, an upload named *.zip whose content
\* has no activity file was refused with status 400 and the table still has
\* one row.
C25_Witness ==
    /\ response.op = "upload_data"
    /\ IsZipName(response.filename)
    /\ zip_out.kind = "raise"
    /\ response.answer = HTTPException(400, NoDataError)
    /\ Len(sessions) = 1

\* the summary as the client reads it: a date as its text, NaN as null
AsClientSees(summary) ==
    [runs     |-> [i \in 1..Len(summary.runs) |->
                      [f \in DOMAIN summary.runs[i] |->
                          IF f = "date" THEN str_date(summary.runs[i][f])
                          ELSE IF summary.runs[i][f] = NaN THEN None
                          ELSE summary.runs[i][f]]],
     metrics  |-> [i \in 1..Len(summary.metrics) |->
                      [Metric |-> summary.metrics[i].Metric,
                       Value  |-> IF summary.metrics[i].Value = NaN THEN None
                                  ELSE summary.metrics[i].Value]],
     zone_pct |-> [z \in 1..Len(summary.zone_pct) |->
                      IF summary.zone_pct[z] = NaN THEN None
                      ELSE summary.zone_pct[z]]]

\* C26: get_results for a session_id that a successful upload returned
\* answers exactly the summary that upload returned, with NaN replaced by
\* null; every successful upload returned a session_id distinct from the
\* earlier ones; get_results for any other identifier answers 404.
C26_ResultsAreWhatUploadReturned ==
    /\ \A i \in 1..Len(returned) :
           get_results(returned[i].session_id, sessions)
               = Ok(AsClientSees(returned[i].summary))
    /\ \A i, j \in 1..Len(returned) :
           i # j => returned[i].session_id # returned[j].session_id
    /\ \A id \in SessionIds :
           (\A i \in 1..Len(returned) : returned[i].session_id # id)
               => get_results(id, sessions) = HTTPException(404, "Not found")
    /\ response.op = "get_results" =>
           response.answer = get_results(response.session_id, sessions)

\* C26 witness: the second session was queried and answered with the summary
\* its upload returned, whose NaN distance is null in the answer.
C26_Witness ==
    /\ response.op = "get_results"
    /\ response.session_id = 2
    /\ response.answer.status_code = 200
    /\ Len(returned) = 2
    /\ returned[2].session_id = 2
    /\ returned[2].summary.runs[1].distance_km = NaN
    /\ response.answer.body.runs[1].distance_km = None
    /\ response.answer.body = AsClientSees(returned[2].summary)

====
